---- MODULE Spec2Model ----
(***************************************************************************)
(* The virtualized table view of sql/base/parts/table: CellCache (a pool   *)
(* of recyclable cell wrappers per template id), ViewRow (binds a model    *)
(* row to a pooled wrapper on demand) and TableView.render (the windowed   *)
(* insert/remove of rows driven by scroll position and viewport height).   *)
(*                                                                         *)
(* Row indices are 0-based as in the source; row i is heightMap[i + 1].    *)
(* A cell (ICell) is identified by its position in `cells`; its <td>       *)
(* element has the same identity, so the children of the row container     *)
(* are a sequence of cell ids.                                             *)
(*                                                                         *)
(* The schema compare dialog (SchemaCompareDialog): openDialog, the        *)
(* content callback of its tab, the radio buttons that switch the form     *)
(* between file browser and dropdowns, and the server dropdowns whose      *)
(* change populates the database dropdowns from the host's listDatabases.  *)
(***************************************************************************)
EXTENDS Integers, Sequences, FiniteSets, TLC

VARIABLES
    heightMap,        \* HeightMap: the ViewRow items in index order
    _cache,           \* CellCache._cache: templateId -> stack of pooled cells
    disposed,         \* CellCache.dispose() has set _cache and context to null
    cells,            \* every ICell constructed so far
    rowsContainer,    \* children of TableView.rowsContainer, in DOM order
    styleTop,         \* rowsContainer.style.top, in px
    lastRenderTop,    \* TableView.lastRenderTop
    lastRenderHeight, \* TableView.lastRenderHeight
    held,             \* cells a direct caller of alloc() holds
    didJustPressContextMenuKey, \* TableView.didJustPressContextMenuKey
    lastPointerType,  \* TableView.lastPointerType ("" while not set)
    msGesture,        \* TableView.msGesture is set (window.MSGesture exists)
    onHiddenScrollTop, \* TableView.onHiddenScrollTop (nullScrollTop while null)
    maxInUse,         \* history: per template id, the most cells in use at once
    last,             \* the last operation: name, arguments, result, whether
                      \* it threw, and the calls it made (cache, renderer
                      \* hooks, console.warn, the row's render callback)
    \* the schema compare dialog (SchemaCompareDialog) and its host
    connectionId,     \* this.connectionId ("" while undefined)
    database,         \* this.database ("" while undefined or empty)
    dialog,           \* this.dialog
    sourceIsDacpac,   \* this.sourceIsDacpac
    targetIsDacpac,   \* this.targetIsDacpac
    formBuilder,      \* the form items of this.formBuilder, in order
    sourceServerDropdown,   \* values and value of this.sourceServerDropdown
    targetServerDropdown,
    sourceDatabaseDropdown, \* values of this.sourceDatabaseDropdown
    targetDatabaseDropdown,
    activeConnections, \* host: what getActiveConnections() resolves to
    currentConnection, \* host: connection id of getCurrentConnection(), or ""
    databasesOf,      \* host: what listDatabases(connectionId) resolves to
    pending,          \* listDatabases requests in flight
    pc                \* where openDialog and the tab's content callback are

tableVars == <<heightMap, _cache, disposed, cells, rowsContainer, styleTop,
               lastRenderTop, lastRenderHeight, held,
               didJustPressContextMenuKey, lastPointerType, msGesture,
               onHiddenScrollTop, maxInUse>>

dialogVars == <<connectionId, database, dialog, sourceIsDacpac, targetIsDacpac,
                formBuilder, sourceServerDropdown, targetServerDropdown,
                sourceDatabaseDropdown, targetDatabaseDropdown,
                activeConnections, currentConnection, databasesOf, pending, pc>>

vars == <<tableVars, dialogVars, last>>

\* ---------------------------------------------------------------- bounds
MaxRows == 2
RenderRows == 3
MaxCells == 3
MaxScrollTop == 3
MaxViewHeight == 2
\* a direct caller of the cache holds as many cells as the rows leave it
MaxHeld == MaxCells - MaxRows
\* listDatabases requests in flight at once, form items in the form
MaxPending == 2
MaxFormItems == 6

RowHeight == 1
RowHeights == {1, 2}

TemplateIds == {"a", "b"}

\* ------------------------------------------------------------ null values
null == 0
noRow == -1
\* onHiddenScrollTop === null (a scroll position is never negative)
nullScrollTop == -1

Max(a, b) == IF a >= b THEN a ELSE b
Min(a, b) == IF a <= b THEN a ELSE b

Range(q) == {q[k] : k \in DOMAIN q}
Occurrences(q, x) == Cardinality({k \in DOMAIN q : q[k] = x})
IndexOf(q, x) == CHOOSE k \in DOMAIN q : q[k] = x /\ \A j \in DOMAIN q : q[j] = x => k <= j
Without(q, x) == SelectSeq(q, LAMBDA y : y # x)

\* ------------------------------------------------------------- HeightMap
RowCount(s) == Len(s.heightMap)
RowIndices(s) == 0 .. (RowCount(s) - 1)

\* largest row index whose cumulative start <= offset; when there is none
\* (an empty index) the row count, an index without an item: render guards
\* its use with "if (topItem)" and its insert loops, which do not guard the
\* item, then do not run
indexAt(s, offset) ==
    IF \E i \in RowIndices(s) : s.heightMap[i + 1].top <= offset
    THEN CHOOSE i \in RowIndices(s) :
            /\ s.heightMap[i + 1].top <= offset
            /\ \A j \in RowIndices(s) : s.heightMap[j + 1].top <= offset => j <= i
    ELSE RowCount(s)

\* indexAfter as it would be if it took a row that starts at the offset
indexAfterFromOffset(s, offset) ==
    IF \E i \in RowIndices(s) : s.heightMap[i + 1].top >= offset
    THEN CHOOSE i \in RowIndices(s) :
            /\ s.heightMap[i + 1].top >= offset
            /\ \A j \in RowIndices(s) : s.heightMap[j + 1].top >= offset => i <= j
    ELSE RowCount(s)

\* first row index whose cumulative start > offset (the row count when none)
indexAfter(s, offset) ==
    IF \E i \in RowIndices(s) : s.heightMap[i + 1].top > offset
    THEN CHOOSE i \in RowIndices(s) :
            /\ s.heightMap[i + 1].top > offset
            /\ \A j \in RowIndices(s) : s.heightMap[j + 1].top > offset => i <= j
    ELSE RowCount(s)

\* a row of the given height is put at index p: it starts where the row
\* before it ends, and the rows after it start lower by its height
insertRowAt(s, p, height, templateId) ==
    LET hm == s.heightMap
        top == IF p = 0 THEN 0 ELSE hm[p].top + hm[p].height
        item == [top |-> top, height |-> height, templateId |-> templateId,
                 row |-> null, model |-> TRUE]
    IN [s EXCEPT !.heightMap =
            SubSeq(hm, 1, p) \o <<item>> \o
            [k \in 1 .. (Len(hm) - p) |->
                [hm[p + k] EXCEPT !.top = @ + height]]]

\* the removal as it would be if the rows after the one taken out stayed
\* where they were
removeRowAtNoShift(s, p) ==
    LET hm == s.heightMap
    IN [s EXCEPT !.heightMap =
            SubSeq(hm, 1, p) \o SubSeq(hm, p + 2, Len(hm))]

\* the row at index p is taken out: the rows after it start higher by its
\* height
removeRowAt(s, p) ==
    LET hm == s.heightMap
        height == hm[p + 1].height
    IN [s EXCEPT !.heightMap =
            SubSeq(hm, 1, p) \o
            [k \in 1 .. (Len(hm) - p - 1) |->
                [hm[p + 1 + k] EXCEPT !.top = @ - height]]]

\* itemAtIndex(i) is the row index itself when the row exists (else undefined)
hasItemAtIndex(s, i) == i \in RowIndices(s)

\* itemAfter(item): the index of the next item, or noRow (null) at the end
itemAfter(s, i) == IF i + 1 \in RowIndices(s) THEN i + 1 ELSE noRow

\* ------------------------------------------------------------------- DOM
parentElement(s, cell) == cell \in Range(s.rowsContainer)

appendChild(s, cell) == [s EXCEPT !.rowsContainer = Append(Without(@, cell), cell)]

\* container.insertBefore(cell, ref): ref must be a child of the container
insertBefore(s, cell, ref) ==
    LET q == Without(s.rowsContainer, cell)
        k == IndexOf(q, ref)
    IN [s EXCEPT !.rowsContainer =
            SubSeq(q, 1, k - 1) \o <<cell>> \o SubSeq(q, k, Len(q))]

\* removeFromParent as it would be without the try/catch
removeFromParentNoCatch(s, cell) ==
    IF s.cells[cell].element /\ parentElement(s, cell)
    THEN [s EXCEPT !.rowsContainer = Without(@, cell)]
    ELSE [s EXCEPT !.threw = TRUE]

removeFromParent(s, cell) ==
    IF s.cells[cell].element /\ parentElement(s, cell)
    THEN [s EXCEPT !.rowsContainer = Without(@, cell)]
    ELSE [s EXCEPT !.log = Append(@, <<"caught", cell>>)]
         \* the TypeError (parentElement is null) is caught and dropped

\* ------------------------------------------------------------- CellCache
\* this.cache(templateId): the pool of a template id, created when missing
cache(s, templateId) ==
    IF templateId \in DOMAIN s._cache
    THEN s
    ELSE [s EXCEPT !._cache = @ @@ (templateId :> <<>>)]

newCell(templateId) ==
    [templateId |-> templateId, element |-> TRUE, templateData |-> TRUE,
     binding |-> noRow, disposeTemplate |-> 0]

\* how often a cell occurs in the pools
PooledCount(s, cell) ==
    LET keys == DOMAIN s._cache
        RECURSIVE sum(_)
        sum(K) == IF K = {} THEN 0
                  ELSE LET k == CHOOSE k \in K : TRUE
                       IN Occurrences(s._cache[k], cell) + sum(K \ {k})
    IN sum(keys)

\* the cells of a template id that were handed out and not given back
InUse(s, templateId) ==
    LET pooled == UNION {Range(s._cache[k]) : k \in DOMAIN s._cache}
    IN {c \in DOMAIN s.cells : /\ s.cells[c].templateId = templateId
                               /\ s.cells[c].disposeTemplate = 0
                               /\ c \notin pooled}

\* history only: the most cells of each template id in use at once so far
noteInUse(s, templateId) ==
    [s EXCEPT !.maxInUse[templateId] = Max(@, Cardinality(InUse(s, templateId)))]

\* alloc as it would be if it never looked into the pool
allocAlwaysNew(s, templateId) ==
    IF s.disposed
    THEN [s EXCEPT !.threw = TRUE]
    ELSE LET c == cache([s EXCEPT !.log = Append(@, <<"alloc", templateId>>)],
                        templateId)
         IN noteInUse(
              [c EXCEPT !.cells = Append(@, newCell(templateId)),
                        !.ret = Len(c.cells) + 1,
                        !.log = Append(@, <<"renderTemplate", templateId>>)],
              templateId)

\* alloc as it would be if it read the top of the pool without popping it
allocPeek(s, templateId) ==
    IF s.disposed
    THEN [s EXCEPT !.threw = TRUE]
    ELSE LET c == cache([s EXCEPT !.log = Append(@, <<"alloc", templateId>>)],
                        templateId)
             pool == c._cache[templateId]
         IN noteInUse(
              IF Len(pool) > 0
              THEN [c EXCEPT !.ret = pool[Len(pool)]]
              ELSE [c EXCEPT !.cells = Append(@, newCell(templateId)),
                             !.ret = Len(c.cells) + 1,
                             !.log = Append(@, <<"renderTemplate", templateId>>)],
              templateId)

alloc(s, templateId) ==
    IF s.disposed
    THEN [s EXCEPT !.threw = TRUE]
    ELSE LET c == cache([s EXCEPT !.log = Append(@, <<"alloc", templateId>>)],
                        templateId)
             pool == c._cache[templateId]
         IN noteInUse(
              IF Len(pool) > 0
              THEN [c EXCEPT !._cache[templateId] = SubSeq(pool, 1, Len(pool) - 1),
                             !.ret = pool[Len(pool)]]
              ELSE [c EXCEPT !.cells = Append(@, newCell(templateId)),
                             !.ret = Len(c.cells) + 1,
                             !.log = Append(@, <<"renderTemplate", templateId>>)],
              templateId)

\* release as it would be if it left the element where it is
releaseKeepsParent(s, templateId, cell) ==
    LET d == [s EXCEPT !.log = Append(@, <<"release", templateId, cell>>)]
    IN IF d.disposed
       THEN [d EXCEPT !.threw = TRUE]
       ELSE LET c == cache(d, templateId)
            IN [c EXCEPT !._cache[templateId] = Append(@, cell)]

release(s, templateId, cell) ==
    LET d == removeFromParent([s EXCEPT !.log = Append(@, <<"release", templateId, cell>>)],
                              cell)
    IN IF d.threw
       THEN d
       ELSE IF d.disposed
       THEN [d EXCEPT !.threw = TRUE]
       ELSE LET c == cache(d, templateId)
            IN [c EXCEPT !._cache[templateId] = Append(@, cell)]

\* garbageCollect as it would be if it did not delete the pools
garbageCollectKeepsPools(s) ==
    IF s.disposed
    THEN s
    ELSE [s EXCEPT
            !.cells = [c \in DOMAIN s.cells |->
                         IF PooledCount(s, c) > 0
                         THEN [s.cells[c] EXCEPT
                                 !.disposeTemplate = @ + PooledCount(s, c),
                                 !.element = FALSE,
                                 !.templateData = FALSE]
                         ELSE s.cells[c]]]

garbageCollect(s) ==
    IF s.disposed
    THEN s
    ELSE [s EXCEPT
            !.cells = [c \in DOMAIN s.cells |->
                         IF PooledCount(s, c) > 0
                         THEN [s.cells[c] EXCEPT
                                 !.disposeTemplate = @ + PooledCount(s, c),
                                 !.element = FALSE,
                                 !.templateData = FALSE]
                         ELSE s.cells[c]],
            !._cache = <<>>]

dispose(s) == [garbageCollect(s) EXCEPT !.disposed = TRUE]

\* --------------------------------------------------------------- ViewRow
templateId(s, i) == s.heightMap[i + 1].templateId

\* ViewRow.element: this.row && this.row.element (FALSE when either is null)
element(s, i) ==
    /\ s.heightMap[i + 1].row # null
    /\ s.cells[s.heightMap[i + 1].row].element

\* the insertion as it would be without the check for a parent
attachAlways(s, i, afterElement) ==
    LET cell == s.heightMap[i + 1].row
    IN IF ~element(s, i)
       THEN [s EXCEPT !.threw = TRUE]
       ELSE LET d == IF afterElement = null
                     THEN appendChild(s, cell)
                     ELSE IF afterElement \in Range(Without(s.rowsContainer, cell))
                     THEN insertBefore(s, cell, afterElement)
                     ELSE appendChild([s EXCEPT !.log = Append(@, <<"warn", i>>)], cell)
            IN [d EXCEPT !.log = Append(@, <<"render", i>>)]

\* the insertion as it would be without the try/catch around insertBefore
attachNoCatch(s, i, afterElement) ==
    LET cell == s.heightMap[i + 1].row
    IN IF ~element(s, i)
       THEN [s EXCEPT !.threw = TRUE]
       ELSE IF parentElement(s, cell)
       THEN s
       ELSE IF afterElement = null
       THEN [appendChild(s, cell) EXCEPT !.log = Append(@, <<"render", i>>)]
       ELSE IF afterElement \in Range(s.rowsContainer)
       THEN [insertBefore(s, cell, afterElement) EXCEPT
                !.log = Append(@, <<"render", i>>)]
       ELSE [s EXCEPT !.threw = TRUE]

\* the part of insertInDOM after the wrapper is bound
attach(s, i, afterElement) ==
    LET cell == s.heightMap[i + 1].row
    IN IF ~element(s, i)
       THEN [s EXCEPT !.threw = TRUE]      \* this.element.parentElement of null
       ELSE IF parentElement(s, cell)
       THEN s
       ELSE LET d == IF afterElement = null
                     THEN appendChild(s, cell)
                     ELSE IF afterElement \in Range(s.rowsContainer)
                     THEN insertBefore(s, cell, afterElement)
                     ELSE appendChild([s EXCEPT !.log = Append(@, <<"warn", i>>)], cell)
            IN [d EXCEPT !.log = Append(@, <<"render", i>>)]

\* insertInDOM as it would be if it allocated a cell for a bound row as well
insertInDOMAlwaysAllocs(s, i, afterElement) ==
    LET a == alloc(s, templateId(s, i))
    IN IF a.threw
       THEN a
       ELSE LET b == [a EXCEPT !.heightMap[i + 1].row = a.ret]
            IN IF ~a.cells[a.ret].element
               THEN [b EXCEPT !.threw = TRUE]
               ELSE attach([b EXCEPT !.cells[a.ret].binding = i], i, afterElement)

insertInDOM(s, i, afterElement) ==
    IF s.heightMap[i + 1].row = null
    THEN LET a == alloc(s, templateId(s, i))
         IN IF a.threw
            THEN a
            ELSE LET b == [a EXCEPT !.heightMap[i + 1].row = a.ret]
                 IN IF ~a.cells[a.ret].element
                    THEN [b EXCEPT !.threw = TRUE]
                    ELSE attach([b EXCEPT !.cells[a.ret].binding = i], i, afterElement)
    ELSE attach(s, i, afterElement)

\* removeFromDOM as it would be if it kept this.row after the release
removeFromDOMKeepsRow(s, i) ==
    LET cell == s.heightMap[i + 1].row
    IN IF cell = null
       THEN s
       ELSE IF ~element(s, i)
       THEN [s EXCEPT !.threw = TRUE]
       ELSE release([s EXCEPT !.cells[cell].binding = noRow,
                              !.log = Append(@, <<"removeFromDOM", i>>)],
                    templateId(s, i), cell)

removeFromDOM(s, i) ==
    LET cell == s.heightMap[i + 1].row
    IN IF cell = null
       THEN s
       ELSE IF ~element(s, i)
       THEN [s EXCEPT !.threw = TRUE]      \* this.element[BINDING] of null
       ELSE LET r == release([s EXCEPT !.cells[cell].binding = noRow,
                                       !.log = Append(@, <<"removeFromDOM", i>>)],
                             templateId(s, i), cell)
            IN IF r.threw
               THEN r
               ELSE [r EXCEPT !.heightMap[i + 1].row = null]

disposeRow(s, i) ==
    [s EXCEPT !.heightMap[i + 1].row = null, !.heightMap[i + 1].model = FALSE]

\* ------------------------------------------------------------- TableView
\* insertItemInDOM as it would be if it never looked for the next row's element
insertItemInDOMAppends(s, i) ==
    insertInDOM(s, i, null)

insertItemInDOM(s, i) ==
    LET after == itemAfter(s, i)
        elementAfter == IF after # noRow /\ element(s, after)
                        THEN s.heightMap[after + 1].row
                        ELSE null
    IN insertInDOM(s, i, elementAfter)

removeItemFromDOM(s, i) ==
    IF ~hasItemAtIndex(s, i) THEN s ELSE removeFromDOM(s, i)

\* the insertion loops as they would be if they ran one row past their stop
RECURSIVE insertLoopPastStop(_, _, _)
insertLoopPastStop(s, i, stop) ==
    IF s.threw \/ ~(i >= stop - 1) \/ ~hasItemAtIndex(s, i)
    THEN s
    ELSE insertLoopPastStop(insertItemInDOM(s, i), i - 1, stop)

RECURSIVE insertLoop(_, _, _)
insertLoop(s, i, stop) ==
    IF s.threw \/ ~(i >= stop)
    THEN s
    ELSE insertLoop(insertItemInDOM(s, i), i - 1, stop)

\* the removal loops as they would be with "<=" for "<"
RECURSIVE removeLoopInclusive(_, _, _)
removeLoopInclusive(s, i, stop) ==
    IF s.threw \/ ~(i <= stop)
    THEN s
    ELSE removeLoopInclusive(removeItemFromDOM(s, i), i + 1, stop)

RECURSIVE removeLoop(_, _, _)
removeLoop(s, i, stop) ==
    IF s.threw \/ ~(i < stop)
    THEN s
    ELSE removeLoop(removeItemFromDOM(s, i), i + 1, stop)

\* the four loops of render, by their place in the source; s0 is the state
\* render was called in (no loop changes what the bounds are computed from)
renderLoop(s0, s, k, scrollTop, viewHeight) ==
    LET renderTop == scrollTop
        renderBottom == scrollTop + viewHeight
        thisRenderBottom == s0.lastRenderTop + s0.lastRenderHeight
    IN CASE k = 1 -> insertLoop(s, indexAfter(s0, renderBottom) - 1,
                                indexAt(s0, Max(thisRenderBottom, renderTop)))
         [] k = 2 -> insertLoop(s, Min(indexAt(s0, s0.lastRenderTop),
                                       indexAfter(s0, renderBottom)) - 1,
                                indexAt(s0, renderTop))
         [] k = 3 -> removeLoop(s, indexAt(s0, s0.lastRenderTop),
                                Min(indexAt(s0, renderTop),
                                    indexAfter(s0, thisRenderBottom)))
         [] k = 4 -> removeLoop(s, Max(indexAfter(s0, renderBottom),
                                       indexAt(s0, s0.lastRenderTop)),
                                indexAfter(s0, thisRenderBottom))

\* the end of render as it would be if it took the scroll position of the
\* last render for the new one
renderEndStaleTop(s0, s4, scrollTop, viewHeight) ==
    LET renderTop == scrollTop
        renderBottom == scrollTop + viewHeight
        topItem == indexAt(s0, renderTop)
    IN IF s4.threw
       THEN s4
       ELSE [s4 EXCEPT
               !.styleTop = IF hasItemAtIndex(s0, topItem)
                            THEN s0.heightMap[topItem + 1].top - s0.lastRenderTop
                            ELSE @,
               !.lastRenderTop = renderTop,
               !.lastRenderHeight = renderBottom - renderTop]

\* the end of render: the top of the row container and the last render
renderEnd(s0, s4, scrollTop, viewHeight) ==
    LET renderTop == scrollTop
        renderBottom == scrollTop + viewHeight
        topItem == indexAt(s0, renderTop)
    IN IF s4.threw
       THEN s4
       ELSE [s4 EXCEPT
               !.styleTop = IF hasItemAtIndex(s0, topItem)
                            THEN s0.heightMap[topItem + 1].top - renderTop
                            ELSE @,
               !.lastRenderTop = renderTop,
               !.lastRenderHeight = renderBottom - renderTop]

\* render with its four loops run in the given order
renderInOrder(s, order, scrollTop, viewHeight) ==
    LET s1 == renderLoop(s, s, order[1], scrollTop, viewHeight)
        s2 == renderLoop(s, s1, order[2], scrollTop, viewHeight)
        s3 == renderLoop(s, s2, order[3], scrollTop, viewHeight)
        s4 == renderLoop(s, s3, order[4], scrollTop, viewHeight)
    IN renderEnd(s, s4, scrollTop, viewHeight)

render(s, scrollTop, viewHeight) ==
    renderInOrder(s, <<1, 2, 3, 4>>, scrollTop, viewHeight)

\* ---------------------------------------------------- TableView: events
\* getCellAround(element) returns undefined for every element
getCellAround(s, target) == noRow

\* the controller is called with the model element of a row (or the focus)
controller(s, handler, elem) == [s EXCEPT !.log = Append(@, <<handler, elem>>)]

ContextMenuKeys == {"ContextMenu", "Shift+F10"}

onKeyDown(s, key, targetIsInput) ==
    LET d == [s EXCEPT !.didJustPressContextMenuKey = (key \in ContextMenuKeys)]
    IN IF targetIsInput
       THEN d
       ELSE controller(d, "onKeyDown", noRow)

\* the branch for a keyboard event reads this.model.getFocus() and then
\* position.left: TableView.model is declared and never assigned, position
\* is declared and never assigned, so the branch ends in a TypeError
onContextMenu(s, isKeyboardEvent, target) ==
    IF isKeyboardEvent \/ s.didJustPressContextMenuKey
    THEN [s EXCEPT !.didJustPressContextMenuKey = FALSE, !.threw = TRUE]
    ELSE LET item == getCellAround(s, target)
         IN IF item = noRow
            THEN s
            ELSE controller(s, "onContextMenu", item)

onKeyUp(s) ==
    LET c == IF s.didJustPressContextMenuKey
             THEN onContextMenu(s, TRUE, null)
             ELSE s
    IN IF c.threw
       THEN c
       ELSE controller([c EXCEPT !.didJustPressContextMenuKey = FALSE],
                       "onKeyUp", noRow)

\* the controller has every handler; ctrlOnMac stands for
\* event.ctrlKey && Platform.isNative && Platform.isMacintosh
onMouseDown(s, target, ctrlOnMac) ==
    LET d == [s EXCEPT !.didJustPressContextMenuKey = FALSE]
    IN IF d.lastPointerType # "" /\ d.lastPointerType # "mouse"
       THEN d
       ELSE IF ctrlOnMac
       THEN d
       ELSE LET item == getCellAround(d, target)
            IN IF item = noRow
               THEN d
               ELSE controller(d, "onMouseDown", item)

onMouseUp(s, target, ctrlOnMac) ==
    IF s.lastPointerType # "" /\ s.lastPointerType # "mouse"
    THEN s
    ELSE IF ctrlOnMac
    THEN s
    ELSE LET item == getCellAround(s, target)
         IN IF item = noRow
            THEN s
            ELSE controller(s, "onMouseUp", item)

onClick(s, target) ==
    IF s.lastPointerType # "" /\ s.lastPointerType # "mouse"
    THEN s
    ELSE LET item == getCellAround(s, target)
         IN IF item = noRow
            THEN s
            ELSE controller(s, "onClick", item)

onTap(s, target) ==
    LET item == getCellAround(s, target)
    IN IF item = noRow
       THEN s
       ELSE controller(s, "onTap", item)

onMsPointerDown(s, pointerType) ==
    IF ~s.msGesture
    THEN s
    ELSE IF pointerType \in {"mouse", "touch"}
    THEN [s EXCEPT !.lastPointerType = pointerType]
    ELSE s

\* ------------------------------------------- TableView: hiding and layout
\* the scrollTop and viewHeight getters read the scrollable element, whose
\* scroll position and height are the ones of its last scroll event, that
\* is, of the last render pass
onHidden(s) == [s EXCEPT !.onHiddenScrollTop = s.lastRenderTop]

isTreeVisible(s) == s.onHiddenScrollTop = nullScrollTop

\* the viewHeight setter: the scrollable element fires its scroll event,
\* with the scroll position it has, when the height is a new one
setViewHeight(s, viewHeight) ==
    IF viewHeight = s.lastRenderHeight
    THEN s
    ELSE render(s, s.lastRenderTop, viewHeight)

\* the scrollTop setter, likewise
setScrollTop(s, scrollTop) ==
    IF scrollTop = s.lastRenderTop
    THEN s
    ELSE render(s, scrollTop, s.lastRenderHeight)

layoutIgnoresHidden(s, height) == setViewHeight(s, height)

layout(s, height) ==
    IF ~isTreeVisible(s)
    THEN s
    ELSE setViewHeight(s, height)

\* ---------------------------------------------------- SchemaCompareDialog
ConnectionIds == {"c1", "c2", "c3"}

DatabaseNames == {"d1", "d2", "d3"}

\* an azdata.connection.Connection of the host: its id and the options the
\* dialog reads ("" for an option that is not set)
Connection(id) ==
    [connectionId |-> id,
     options |->
        CASE id = "c1" -> [server |-> "s1", databaseDisplayName |-> "", user |-> ""]
          [] id = "c2" -> [server |-> "s2", databaseDisplayName |-> "d1", user |-> "u"]
          [] OTHER -> [server |-> "s1", databaseDisplayName |-> "d2", user |-> ""]]

Connections == {Connection(id) : id \in ConnectionIds}

\* the lists over S in which nothing is there twice
ListsOver(S) ==
    {q \in UNION {[1 .. n -> S] : n \in 0 .. Cardinality(S)} :
        \A i, j \in DOMAIN q : i # j => q[i] # q[j]}

\* the result of getServerValues: undefined, or the list of dropdown values
undefinedValues == [undefined |-> TRUE, values |-> <<>>]
definedValues(values) == [undefined |-> FALSE, values |-> values]

\* idx after cons.map(...): count runs over the indices from 0 and idx is
\* assigned at every match, so it ends as the index of the last match, or -1
\* (matches[k] says whether the entry at index k - 1 matches)
idxAfterMap(matches) ==
    IF \E k \in DOMAIN matches : matches[k]
    THEN (CHOOSE k \in DOMAIN matches :
            matches[k] /\ \A j \in DOMAIN matches : matches[j] => j <= k) - 1
    ELSE -1

swapWithFirstShifts(values, idx) ==
    IF idx >= 0
    THEN <<values[idx + 1]>> \o SubSeq(values, 1, idx)
             \o SubSeq(values, idx + 2, Len(values))
    ELSE values

\* tmp = values[0]; values[0] = values[idx]; values[idx] = tmp
swapWithFirst(values, idx) ==
    IF idx >= 0
    THEN [values EXCEPT ![1] = values[idx + 1], ![idx + 1] = values[1]]
    ELSE values

\* the name shown for a connection: `${srv}, ${db} (${usr})`
finalName(c) ==
    <<c.options.server,
      IF c.options.databaseDisplayName = "" THEN "<default>"
      ELSE c.options.databaseDisplayName,
      IF c.options.user = "" THEN "default" ELSE c.options.user>>

\* cons is what getActiveConnections() resolved to (<<>> also for undefined),
\* id is this.connectionId
getServerValues(cons, id) ==
    IF cons = <<>>
    THEN undefinedValues
    ELSE LET idx == idxAfterMap([k \in DOMAIN cons |-> cons[k].connectionId = id])
             values == [k \in DOMAIN cons |->
                          [connection |-> cons[k],
                           displayName |-> finalName(cons[k]),
                           name |-> cons[k].options.server]]
         IN definedValues(swapWithFirst(values, idx))

\* dbs is what listDatabases(connectionId) resolved to, db0 is this.database
getDatabaseValues(dbs, db0) ==
    LET idx == idxAfterMap([k \in DOMAIN dbs |-> db0 # "" /\ dbs[k] = db0])
        values == [k \in DOMAIN dbs |-> [displayName |-> dbs[k], name |-> dbs[k]]]
    IN swapWithFirst(values, idx)

SchemaCompareLabel == "Schema Compare"
CompareButtonText == "Compare"
CancelButtonText == "Cancel"

\* openDialog from createModelViewDialog on: the dialog is created with its
\* title (the host creates its buttons enabled), the tab's content callback
\* is registered, the buttons are labelled and the dialog is opened
createdDialog ==
    [exists |-> TRUE, title |-> SchemaCompareLabel,
     okButton |-> [label |-> CompareButtonText, enabled |-> TRUE],
     cancelButton |-> [label |-> CancelButtonText, enabled |-> TRUE],
     opened |-> TRUE]

\* the form components, by the name of the field or local that holds them
SourceGroup == {"sourceDacpacComponent", "sourceServerComponent",
                "sourceDatabaseComponent", "sourceNoActiveConnectionsText"}
TargetGroup == {"targetDacpacComponent", "targetServerComponent",
                "targetDatabaseComponent", "targetNoActiveConnectionsText"}

\* withFormItems of initializeSchemaCompareTab, with and without this.database
formItemsOfDatabase ==
    <<"sourceRadioButtons", "sourceServerComponent", "sourceDatabaseComponent",
      "targetRadioButtons", "targetDacpacComponent">>
formItemsOfDacpac ==
    <<"sourceRadioButtons", "sourceDacpacComponent", "targetRadioButtons",
      "targetDacpacComponent">>

\* FormBuilder of the host. What insertFormItem and addFormItem do with a
\* component that is in the form already is the host's choice: `again` says
\* whether it is inserted once more or the call is ignored.
removeFormItem(items, c) ==
    IF c \in Range(items)
    THEN SubSeq(items, 1, IndexOf(items, c) - 1)
             \o SubSeq(items, IndexOf(items, c) + 1, Len(items))
    ELSE items

insertFormItem(items, c, index, again) ==
    IF c \in Range(items) /\ ~again
    THEN items
    ELSE SubSeq(items, 1, Min(index, Len(items))) \o <<c>>
             \o SubSeq(items, Min(index, Len(items)) + 1, Len(items))

addFormItem(items, c, again) == insertFormItem(items, c, Len(items), again)

\* the two onDidClick handlers of createSourceRadiobuttons; hasValue is
\* whether this.sourceServerDropdown.value is set
sourceDacpacClick(items, again) ==
    insertFormItem(
        removeFormItem(
            removeFormItem(
                removeFormItem(items, "sourceNoActiveConnectionsText"),
                "sourceServerComponent"),
            "sourceDatabaseComponent"),
        "sourceDacpacComponent", 1, again)

sourceDatabaseClick(items, hasValue, again) ==
    removeFormItem(
        IF hasValue
        THEN insertFormItem(
                 insertFormItem(items, "sourceServerComponent", 1, again),
                 "sourceDatabaseComponent", 2, again)
        ELSE insertFormItem(items, "sourceNoActiveConnectionsText", 1, again),
        "sourceDacpacComponent")

\* the two onDidClick handlers of createTargetRadiobuttons
targetDacpacClick(items, again) ==
    addFormItem(
        removeFormItem(
            removeFormItem(
                removeFormItem(items, "targetNoActiveConnectionsText"),
                "targetServerComponent"),
            "targetDatabaseComponent"),
        "targetDacpacComponent", again)

targetDatabaseClick(items, hasValue, again) ==
    LET removed == removeFormItem(items, "targetDacpacComponent")
    IN IF hasValue
       THEN addFormItem(addFormItem(removed, "targetServerComponent", again),
                        "targetDatabaseComponent", again)
       ELSE addFormItem(removed, "targetNoActiveConnectionsText", again)

\* ------------------------------------------------------------ the machine
\* the state handed to an operation: no result, no exception, no hook yet
Cur ==
    [heightMap |-> heightMap, _cache |-> _cache, disposed |-> disposed,
     cells |-> cells, rowsContainer |-> rowsContainer, styleTop |-> styleTop,
     lastRenderTop |-> lastRenderTop, lastRenderHeight |-> lastRenderHeight,
     didJustPressContextMenuKey |-> didJustPressContextMenuKey,
     lastPointerType |-> lastPointerType, msGesture |-> msGesture,
     onHiddenScrollTop |-> onHiddenScrollTop,
     maxInUse |-> maxInUse, ret |-> null, threw |-> FALSE, log |-> <<>>]

CommitWithin(r, op, args, maxCells) ==
    /\ Len(r.cells) <= maxCells
    /\ heightMap' = r.heightMap
    /\ _cache' = r._cache
    /\ disposed' = r.disposed
    /\ cells' = r.cells
    /\ rowsContainer' = r.rowsContainer
    /\ styleTop' = r.styleTop
    /\ lastRenderTop' = r.lastRenderTop
    /\ lastRenderHeight' = r.lastRenderHeight
    /\ didJustPressContextMenuKey' = r.didJustPressContextMenuKey
    /\ lastPointerType' = r.lastPointerType
    /\ msGesture' = r.msGesture
    /\ onHiddenScrollTop' = r.onHiddenScrollTop
    /\ maxInUse' = r.maxInUse
    /\ last' = [op |-> op, args |-> args, ret |-> r.ret, threw |-> r.threw,
                log |-> r.log]
    /\ UNCHANGED dialogVars

Commit(r, op, args) == CommitWithin(r, op, args, MaxCells)

RECURSIVE Tops(_)
Tops(hs) ==
    IF hs = <<>> THEN <<>>
    ELSE LET front == SubSeq(hs, 1, Len(hs) - 1)
             t == Tops(front)
         IN Append(t, IF front = <<>> THEN 0
                      ELSE t[Len(t)] + front[Len(front)])

\* the ViewRow items of a table whose rows have heights hs and template ids ts
Items(hs, ts) ==
    [k \in 1 .. Len(hs) |->
        [top |-> Tops(hs)[k], height |-> hs[k], templateId |-> ts[k],
         row |-> null, model |-> TRUE]]

\* template ids of n rows: one for all rows, or two in turn
OneTemplate(n) == [k \in 1 .. n |-> "a"]
TwoTemplates(n) == [k \in 1 .. n |-> IF k % 2 = 1 THEN "a" ELSE "b"]

\* the table of MaxRows rows of one height and one template id
PlainTables ==
    {Items([k \in 1 .. MaxRows |-> RowHeight], OneTemplate(MaxRows))}

\* tables of MaxRows rows of one height
UniformTables ==
    {Items([k \in 1 .. MaxRows |-> RowHeight], ts) :
        ts \in {OneTemplate(MaxRows), TwoTemplates(MaxRows)}}

\* tables of RenderRows rows of height RowHeight, but for at most one row of
\* another height of RowHeights, with two template ids in turn
MixedTables ==
    {Items([k \in 1 .. RenderRows |-> IF k = tall THEN h ELSE RowHeight],
           TwoTemplates(RenderRows)) :
        tall \in 1 .. RenderRows, h \in RowHeights}

\* the same tables, and the table without rows the view is constructed with
RenderTables == MixedTables \cup {<<>>}

\* the table of RenderRows rows of one height, with two template ids in turn
RaceTables ==
    {Items([k \in 1 .. RenderRows |-> RowHeight], TwoTemplates(RenderRows))}

\* the table of RenderRows rows of height RowHeight, but for the last row,
\* which is taller by one, with two template ids in turn
ScrollTables ==
    {Items([k \in 1 .. RenderRows |-> IF k = RenderRows THEN RowHeight + 1 ELSE RowHeight],
           TwoTemplates(RenderRows))}

\* the table of the scenarios: rows of 20px, 500px in all, one template id
ScenarioRows == 25
ScenarioRowHeight == 20
ScenarioTables ==
    {Items([k \in 1 .. ScenarioRows |-> ScenarioRowHeight], OneTemplate(ScenarioRows))}

\* the viewport heights and scroll positions of the scenarios
ScenarioViewHeights == {200, 400}
ScenarioScrollTops == {0, 5, 205}

InitTable(tables, gestures) ==
    /\ heightMap \in tables
    /\ didJustPressContextMenuKey = FALSE
    /\ lastPointerType = ""
    /\ msGesture \in gestures
    /\ onHiddenScrollTop = nullScrollTop
    /\ _cache = ("" :> <<>>)
    /\ disposed = FALSE
    /\ cells = <<>>
    /\ rowsContainer = <<>>
    /\ styleTop = 0
    /\ lastRenderTop = 0
    /\ lastRenderHeight = 0
    /\ held = {}
    /\ maxInUse = [k \in TemplateIds |-> 0]
    /\ last = [op |-> "new", args |-> <<>>, ret |-> null, threw |-> FALSE,
               log |-> <<>>]

\* a SchemaCompareDialog just constructed: no field is assigned yet
NoDialog == [exists |-> FALSE, title |-> "", okButton |-> [label |-> "", enabled |-> FALSE],
             cancelButton |-> [label |-> "", enabled |-> FALSE], opened |-> FALSE]

NoDropdown == [exists |-> FALSE, values |-> <<>>, value |-> ""]

InitDialogFields(ids, dbs) ==
    /\ connectionId \in ids
    /\ database \in dbs
    /\ dialog = NoDialog
    /\ sourceIsDacpac = FALSE
    /\ targetIsDacpac = FALSE
    /\ formBuilder = <<>>
    /\ sourceServerDropdown = NoDropdown
    /\ targetServerDropdown = NoDropdown
    /\ sourceDatabaseDropdown = NoDropdown
    /\ targetDatabaseDropdown = NoDropdown
    /\ pending = {}
    /\ pc = "new"

\* the table view alone: no dialog, a host without connections
InitWith(tables, gestures) ==
    /\ InitTable(tables, gestures)
    /\ InitDialogFields({""}, {""})
    /\ activeConnections = <<>>
    /\ currentConnection = ""
    /\ databasesOf = <<>>

\* a view constructed where window.MSGesture does not exist
InitOn(tables) == InitWith(tables, {FALSE})

Init == InitOn(PlainTables)

InitLifecycle == InitOn(UniformTables)

InitRender == InitOn(RenderTables)

InitRace == InitOn(RaceTables)

InitScroll == InitOn(ScrollTables)

\* the view that gets the events, with and without window.MSGesture
InitInput == InitWith(PlainTables, BOOLEAN)

InitScenario == InitOn(ScenarioTables)

\* the height index as the view is constructed with it: without rows
InitHeightMap == InitOn({<<>>})

Rows == 0 .. (Len(heightMap) - 1)
LiveRows == {i \in Rows : heightMap[i + 1].model}
Elements == {c \in DOMAIN cells : cells[c].element}

\* a direct caller of CellCache.alloc keeps the wrapper it got
Alloc ==
    \E k \in TemplateIds :
        /\ Cardinality(held) < MaxHeld
        /\ \E r \in {alloc(Cur, k)} :
              /\ Commit(r, "alloc", <<k>>)
              /\ held' = IF r.threw THEN held ELSE held \cup {r.ret}

\* ... and gives back a wrapper it holds, under the wrapper's template id
Release ==
    \E c \in held :
        /\ \E r \in {release(Cur, cells[c].templateId, c)} :
              Commit(r, "release", <<cells[c].templateId, c>>)
        /\ held' = held \ {c}

GarbageCollect ==
    /\ \E r \in {garbageCollect(Cur)} : Commit(r, "garbageCollect", <<>>)
    /\ UNCHANGED held

Dispose ==
    /\ \E r \in {dispose(Cur)} : Commit(r, "dispose", <<>>)
    /\ UNCHANGED held

InsertInDOM ==
    \E i \in LiveRows, afterElement \in {null} \cup Elements :
        /\ \E r \in {insertInDOM(Cur, i, afterElement)} :
              Commit(r, "insertInDOM", <<i, afterElement>>)
        /\ UNCHANGED held

RemoveFromDOM ==
    \E i \in LiveRows :
        /\ \E r \in {removeFromDOM(Cur, i)} : Commit(r, "removeFromDOM", <<i>>)
        /\ UNCHANGED held

DisposeRow ==
    \E i \in LiveRows :
        /\ \E r \in {disposeRow(Cur, i)} : Commit(r, "disposeRow", <<i>>)
        /\ UNCHANGED held

Render ==
    \E scrollTop \in 0 .. MaxScrollTop, viewHeight \in 0 .. MaxViewHeight :
        /\ \E r \in {render(Cur, scrollTop, viewHeight)} :
              Commit(r, "render", <<scrollTop, viewHeight>>)
        /\ UNCHANGED held

\* the scroll listener of the constructor: this.render(e.scrollTop, e.height),
\* with the calls of the pass not kept
Scroll ==
    \E scrollTop \in 0 .. MaxScrollTop, viewHeight \in 0 .. MaxViewHeight :
        /\ \E r \in {render(Cur, scrollTop, viewHeight)} :
              Commit([r EXCEPT !.log = <<>>], "scroll", <<scrollTop, viewHeight>>)
        /\ UNCHANGED held

\* layout(height): the viewHeight setter makes the scrollable element fire
\* its scroll event with the scroll position it has and the new height
Layout ==
    \E viewHeight \in ScenarioViewHeights :
        /\ viewHeight # lastRenderHeight
        /\ \E r \in {layout(Cur, viewHeight)} :
              CommitWithin(r, "render", <<lastRenderTop, viewHeight>>, ScenarioRows)
        /\ UNCHANGED held

\* the scrollTop setter: the scroll event has the new scroll position and
\* the height the scrollable element has
ScrollTo ==
    \E scrollTop \in ScenarioScrollTops :
        /\ scrollTop # lastRenderTop
        /\ lastRenderHeight \in ScenarioViewHeights
        /\ \E r \in {setScrollTop(Cur, scrollTop)} :
              CommitWithin(r, "render", <<scrollTop, lastRenderHeight>>, ScenarioRows)
        /\ UNCHANGED held

\* the height index alone: a row is inserted at any index
InsertRow ==
    \E p \in 0 .. Len(heightMap), height \in RowHeights :
        /\ Len(heightMap) < RenderRows
        /\ \E r \in {insertRowAt(Cur, p, height, "a")} :
              Commit(r, "insertRowAt", <<p, height>>)
        /\ UNCHANGED held

\* ... a row is removed at any index
RemoveRow ==
    \E p \in Rows :
        /\ \E r \in {removeRowAt(Cur, p)} : Commit(r, "removeRowAt", <<p>>)
        /\ UNCHANGED held

\* ... and the index is asked for the rows at and after an offset
Query ==
    \E offset \in 0 .. (MaxScrollTop + MaxViewHeight) :
        /\ \E r \in {[Cur EXCEPT !.ret = <<indexAt(Cur, offset),
                                             indexAfter(Cur, offset)>>]} :
              Commit(r, "indexAt", <<offset>>)
        /\ UNCHANGED held

\* the DOM events the constructor listens to; an event targets the element
\* of an attached row or (null) another element
Targets == {null} \cup Range(rowsContainer)

KeyDown ==
    \E key \in ContextMenuKeys \cup {"F10", "Enter"}, targetIsInput \in BOOLEAN :
        /\ \E r \in {onKeyDown(Cur, key, targetIsInput)} :
              Commit(r, "onKeyDown", <<key, targetIsInput>>)
        /\ UNCHANGED held

KeyUp ==
    /\ \E r \in {onKeyUp(Cur)} : Commit(r, "onKeyUp", <<>>)
    /\ UNCHANGED held

MouseDown ==
    \E target \in Targets, ctrlOnMac \in BOOLEAN :
        /\ \E r \in {onMouseDown(Cur, target, ctrlOnMac)} :
              Commit(r, "onMouseDown", <<target, ctrlOnMac>>)
        /\ UNCHANGED held

MouseUp ==
    \E target \in Targets, ctrlOnMac \in BOOLEAN :
        /\ \E r \in {onMouseUp(Cur, target, ctrlOnMac)} :
              Commit(r, "onMouseUp", <<target, ctrlOnMac>>)
        /\ UNCHANGED held

Click ==
    \E target \in Targets :
        /\ \E r \in {onClick(Cur, target)} : Commit(r, "onClick", <<target>>)
        /\ UNCHANGED held

Tap ==
    \E target \in Targets :
        /\ \E r \in {onTap(Cur, target)} : Commit(r, "onTap", <<target>>)
        /\ UNCHANGED held

ContextMenu ==
    \E target \in Targets :
        /\ \E r \in {onContextMenu(Cur, FALSE, target)} :
              Commit(r, "onContextMenu", <<target>>)
        /\ UNCHANGED held

MsPointerDown ==
    \E pointerType \in {"mouse", "touch", "pen"} :
        /\ \E r \in {onMsPointerDown(Cur, pointerType)} :
              Commit(r, "onMsPointerDown", <<pointerType>>)
        /\ UNCHANGED held

\* onHidden(), layout(height) and the scrollTop setter, called by the owner
\* of the view
OnHidden ==
    /\ \E r \in {onHidden(Cur)} : Commit(r, "onHidden", <<>>)
    /\ UNCHANGED held

LayoutHeight ==
    \E height \in 1 .. MaxViewHeight :
        /\ \E r \in {layout(Cur, height)} : Commit(r, "layout", <<height>>)
        /\ UNCHANGED held

SetScrollTop ==
    \E scrollTop \in 0 .. MaxScrollTop :
        /\ \E r \in {setScrollTop(Cur, scrollTop)} :
              Commit(r, "scrollTop", <<scrollTop>>)
        /\ UNCHANGED held

\* the race of the error-handling design: something else (a blur handler,
\* a concurrent removal) takes an attached element out of the row container
DetachElement ==
    \E c \in Range(rowsContainer) :
        /\ rowsContainer' = Without(rowsContainer, c)
        /\ last' = [op |-> "detach", args |-> <<c>>, ret |-> null,
                    threw |-> FALSE, log |-> <<>>]
        /\ UNCHANGED <<heightMap, _cache, disposed, cells, styleTop,
                       lastRenderTop, lastRenderHeight, held,
                       didJustPressContextMenuKey, lastPointerType, msGesture,
                       onHiddenScrollTop, maxInUse>>
        /\ UNCHANGED dialogVars

\* the cell cache and the view rows, used directly
Next ==
    \/ Alloc
    \/ Release
    \/ GarbageCollect
    \/ InsertInDOM
    \/ RemoveFromDOM

Spec == Init /\ [][Next]_vars

\* the table view driven by scroll and resize events only
NextRender == Render

SpecRender == InitRender /\ [][NextRender]_vars

\* the same, with rows and the cache disposed of as well
NextLifecycle ==
    \/ InsertInDOM
    \/ RemoveFromDOM
    \/ GarbageCollect
    \/ DisposeRow
    \/ Dispose

SpecLifecycle == InitLifecycle /\ [][NextLifecycle]_vars

\* render passes while elements are detached behind the view's back
NextRace ==
    \/ Render
    \/ DetachElement

SpecRace == InitRace /\ [][NextRace]_vars

\* the table view driven by its scroll listener, the calls not observed
NextScroll == Scroll

SpecScroll == InitScroll /\ [][NextScroll]_vars

\* the scenarios: the view is laid out, scrolled and resized
NextScenario ==
    \/ Layout
    \/ ScrollTo

SpecScenario == InitScenario /\ [][NextScenario]_vars

\* the height index: rows inserted and removed at any index, and queries
NextHeightMap ==
    \/ InsertRow
    \/ RemoveRow
    \/ Query

SpecHeightMap == InitHeightMap /\ [][NextHeightMap]_vars

\* the view with rows attached by render passes, getting DOM events
NextInput ==
    \/ Render
    \/ KeyDown
    \/ KeyUp
    \/ MouseDown
    \/ MouseUp
    \/ Click
    \/ Tap
    \/ ContextMenu
    \/ MsPointerDown

SpecInput == InitInput /\ [][NextInput]_vars

\* a dialog whose launch connection and launch database are set (or not),
\* on a host with any list of active connections and of databases
InitValues ==
    /\ InitTable({<<>>}, {FALSE})
    /\ InitDialogFields(ConnectionIds \cup {""}, DatabaseNames \cup {""})
    /\ activeConnections \in ListsOver(Connections)
    /\ currentConnection = ""
    /\ databasesOf \in [{"c1"} -> ListsOver(DatabaseNames)]

GetServerValues ==
    /\ last' = [op |-> "getServerValues", args |-> <<>>,
                ret |-> getServerValues(activeConnections, connectionId),
                threw |-> FALSE, log |-> <<>>]
    /\ UNCHANGED <<tableVars, dialogVars>>

GetDatabaseValues ==
    \E id \in DOMAIN databasesOf :
        /\ last' = [op |-> "getDatabaseValues", args |-> <<id>>,
                    ret |-> getDatabaseValues(databasesOf[id], database),
                    threw |-> FALSE, log |-> <<>>]
        /\ UNCHANGED <<tableVars, dialogVars>>

NextValues ==
    \/ GetServerValues
    \/ GetDatabaseValues

SpecValues == InitValues /\ [][NextValues]_vars

\* ------------------------------------------------ the dialog, opened
\* the connection profile of a context: none, or one with a database name
\* (possibly empty) and the id of its connection
noProfile == [exists |-> FALSE, databaseName |-> "", id |-> ""]

Profiles ==
    {[exists |-> TRUE, databaseName |-> db, id |-> id] :
        db \in {"", "d2"}, id \in {"c1", "c2"}}

\* the context argument of openDialog: undefined, an object without a
\* connectionProfile, or an ObjectExplorerContext with one
Contexts ==
    {[defined |-> FALSE, connectionProfile |-> noProfile]}
        \cup {[defined |-> TRUE, connectionProfile |-> p] :
                 p \in Profiles \cup {noProfile}}

\* a dialog just constructed, on a host with no, one or two active
\* connections, with or without a current connection
InitDialog ==
    /\ InitTable({<<>>}, {FALSE})
    /\ InitDialogFields({""}, {""})
    /\ activeConnections \in ListsOver({Connection("c1"), Connection("c2")})
    /\ currentConnection \in {"", "c2"}
    /\ databasesOf = [id \in ConnectionIds |->
                         CASE id = "c1" -> <<"d1", "d2">>
                           [] id = "c2" -> <<"d2", "d3">>
                           [] OTHER -> <<"d3">>]

\* openDialog(context), up to where it returns its promise: at the await of
\* getCurrentConnection() when the context has no profile, else at its end
OpenDialog ==
    \E context \in Contexts :
        LET profile == IF context.defined THEN context.connectionProfile
                       ELSE noProfile
        IN /\ pc = "new"
           /\ IF profile.exists
              THEN /\ database' = profile.databaseName
                   /\ connectionId' = profile.id
                   /\ dialog' = createdDialog
                   /\ pc' = "opened"
              ELSE /\ pc' = "getCurrentConnection"
                   /\ UNCHANGED <<database, connectionId, dialog>>
           /\ last' = [op |-> "openDialog", args |-> <<context>>, ret |-> null,
                       threw |-> FALSE, log |-> <<>>]
           /\ UNCHANGED <<sourceIsDacpac, targetIsDacpac, formBuilder,
                          sourceServerDropdown, targetServerDropdown,
                          sourceDatabaseDropdown, targetDatabaseDropdown,
                          activeConnections, currentConnection, databasesOf,
                          pending, tableVars>>

\* getCurrentConnection() resolves and openDialog runs to its end
GetCurrentConnectionResolves ==
    /\ pc = "getCurrentConnection"
    /\ connectionId' = IF currentConnection # "" THEN currentConnection
                       ELSE connectionId
    /\ dialog' = createdDialog
    /\ pc' = "opened"
    /\ last' = [op |-> "getCurrentConnection", args |-> <<>>, ret |-> null,
                threw |-> FALSE, log |-> <<>>]
    /\ UNCHANGED <<database, sourceIsDacpac, targetIsDacpac, formBuilder,
                   sourceServerDropdown, targetServerDropdown,
                   sourceDatabaseDropdown, targetDatabaseDropdown,
                   activeConnections, currentConnection, databasesOf,
                   pending, tableVars>>

\* the content callback of the tab (initializeSchemaCompareTab): the
\* dropdowns are created and populated, the radio buttons set the two flags
\* and the form is built. Whether a dropdown that was given values and no
\* value has its first value as its value is the host's choice (defaults).
RegisterContent ==
    \E defaults \in BOOLEAN :
        LET values == getServerValues(activeConnections, connectionId).values
            server == [exists |-> TRUE, values |-> values,
                       value |-> IF defaults /\ values # <<>>
                                 THEN values[1].connection.connectionId
                                 ELSE ""]
            databases == [exists |-> TRUE,
                          values |-> IF server.value # ""
                                     THEN getDatabaseValues(
                                              databasesOf[server.value], database)
                                     ELSE <<>>,
                          value |-> ""]
        IN /\ pc = "opened"
           /\ sourceServerDropdown' = server
           /\ targetServerDropdown' = server
           /\ sourceDatabaseDropdown' = databases
           /\ targetDatabaseDropdown' = databases
           /\ sourceIsDacpac' = (database = "")
           /\ targetIsDacpac' = TRUE
           /\ formBuilder' = IF database # "" THEN formItemsOfDatabase
                             ELSE formItemsOfDacpac
           /\ pc' = "initialized"
           /\ last' = [op |-> "registerContent", args |-> <<defaults>>,
                       ret |-> null, threw |-> FALSE, log |-> <<>>]
           /\ UNCHANGED <<connectionId, database, dialog, activeConnections,
                          currentConnection, databasesOf, pending, tableVars>>

\* a click on one of the four radio buttons
ClickRadioButton(name, items, isSource, isDacpac) ==
    /\ pc = "initialized"
    /\ Len(items) <= MaxFormItems
    /\ formBuilder' = items
    /\ IF isSource
       THEN sourceIsDacpac' = isDacpac /\ UNCHANGED targetIsDacpac
       ELSE targetIsDacpac' = isDacpac /\ UNCHANGED sourceIsDacpac
    /\ last' = [op |-> name, args |-> <<>>, ret |-> null, threw |-> FALSE,
                log |-> <<>>]
    /\ UNCHANGED <<connectionId, database, dialog, sourceServerDropdown,
                   targetServerDropdown, sourceDatabaseDropdown,
                   targetDatabaseDropdown, activeConnections,
                   currentConnection, databasesOf, pending, pc, tableVars>>

ClickSourceDacpac ==
    \E again \in BOOLEAN :
        ClickRadioButton("sourceDacpacClick",
                         sourceDacpacClick(formBuilder, again), TRUE, TRUE)

ClickSourceDatabase ==
    \E again \in BOOLEAN :
        ClickRadioButton("sourceDatabaseClick",
                         sourceDatabaseClick(formBuilder,
                             sourceServerDropdown.value # "", again),
                         TRUE, FALSE)

ClickTargetDacpac ==
    \E again \in BOOLEAN :
        ClickRadioButton("targetDacpacClick",
                         targetDacpacClick(formBuilder, again), FALSE, TRUE)

ClickTargetDatabase ==
    \E again \in BOOLEAN :
        ClickRadioButton("targetDatabaseClick",
                         targetDatabaseClick(formBuilder,
                             targetServerDropdown.value # "", again),
                         FALSE, FALSE)

\* the user picks another server in a server dropdown that the form shows:
\* onValueChanged calls populateDatabaseDropdown, which empties the database
\* dropdown and awaits listDatabases for the server picked
ServerValueChanged(isTarget) ==
    LET dropdown == IF isTarget THEN targetServerDropdown
                    ELSE sourceServerDropdown
        component == IF isTarget THEN "targetServerComponent"
                     ELSE "sourceServerComponent"
    IN \E k \in DOMAIN dropdown.values :
        LET id == dropdown.values[k].connection.connectionId
            picked == [dropdown EXCEPT !.value = id]
            request == [connectionId |-> id, isTarget |-> isTarget]
        IN /\ pc = "initialized"
           /\ component \in Range(formBuilder)
           /\ id # dropdown.value
           /\ request \notin pending
           /\ Cardinality(pending) < MaxPending
           /\ pending' = pending \cup {request}
           /\ IF isTarget
              THEN /\ targetServerDropdown' = picked
                   /\ targetDatabaseDropdown' =
                          [targetDatabaseDropdown EXCEPT !.values = <<>>]
                   /\ UNCHANGED <<sourceServerDropdown, sourceDatabaseDropdown>>
              ELSE /\ sourceServerDropdown' = picked
                   /\ sourceDatabaseDropdown' =
                          [sourceDatabaseDropdown EXCEPT !.values = <<>>]
                   /\ UNCHANGED <<targetServerDropdown, targetDatabaseDropdown>>
           /\ last' = [op |-> "onValueChanged", args |-> <<isTarget, id>>,
                       ret |-> null, threw |-> FALSE, log |-> <<>>]
           /\ UNCHANGED <<connectionId, database, dialog, sourceIsDacpac,
                          targetIsDacpac, formBuilder, activeConnections,
                          currentConnection, databasesOf, pc, tableVars>>

SourceServerValueChanged == ServerValueChanged(FALSE)

TargetServerValueChanged == ServerValueChanged(TRUE)

\* a listDatabases request resolves: getDatabaseValues and then
\* populateDatabaseDropdown run to their end
ListDatabasesResolves ==
    \E request \in pending :
        LET values == getDatabaseValues(databasesOf[request.connectionId],
                                        database)
        IN /\ pending' = pending \ {request}
           /\ IF request.isTarget
              THEN /\ targetDatabaseDropdown' =
                          [targetDatabaseDropdown EXCEPT !.values = values]
                   /\ UNCHANGED sourceDatabaseDropdown
              ELSE /\ sourceDatabaseDropdown' =
                          [sourceDatabaseDropdown EXCEPT !.values = values]
                   /\ UNCHANGED targetDatabaseDropdown
           /\ last' = [op |-> "listDatabases",
                       args |-> <<request.isTarget, request.connectionId>>,
                       ret |-> null, threw |-> FALSE, log |-> <<>>]
           /\ UNCHANGED <<connectionId, database, dialog, sourceIsDacpac,
                          targetIsDacpac, formBuilder, sourceServerDropdown,
                          targetServerDropdown, activeConnections,
                          currentConnection, databasesOf, pc, tableVars>>

NextDialog ==
    \/ OpenDialog
    \/ GetCurrentConnectionResolves
    \/ RegisterContent
    \/ ClickSourceDacpac
    \/ ClickSourceDatabase
    \/ ClickTargetDacpac
    \/ ClickTargetDatabase
    \/ SourceServerValueChanged
    \/ TargetServerValueChanged
    \/ ListDatabasesResolves

SpecDialog == InitDialog /\ [][NextDialog]_vars

\* a view that is laid out, scrolled and hidden
NextHidden ==
    \/ OnHidden
    \/ LayoutHeight
    \/ SetScrollTop

SpecHidden == InitRender /\ [][NextHidden]_vars

\* ------------------------------------------------------------ the claims
BoundCell(i) == heightMap[i + 1].row
AttachedRows == {i \in Rows : BoundCell(i) # null /\ BoundCell(i) \in Range(rowsContainer)}
VisibleRange(scrollTop, viewHeight) ==
    {i \in Rows : /\ indexAt(Cur, scrollTop) <= i
                  /\ i < indexAfter(Cur, scrollTop + viewHeight)}

\* C1: after every render(scrollTop, viewHeight), the rows attached to the
\* row container are exactly the rows i with
\* indexAt(scrollTop) <= i < indexAfter(scrollTop + viewHeight), and the
\* container holds no element of any other row.
C1_RenderAttachesVisibleRange ==
    last.op = "render" =>
        /\ ~last.threw
        /\ AttachedRows = VisibleRange(last.args[1], last.args[2])
        /\ Range(rowsContainer) = {BoundCell(i) : i \in AttachedRows}
        /\ Len(rowsContainer) = Cardinality(AttachedRows)

\* a render that scrolled down: a row left at the top (its cell is pooled)
\* while other rows are attached
C1_Witness ==
    /\ last.op = "render"
    /\ lastRenderTop > 0
    /\ 0 \notin AttachedRows
    /\ AttachedRows # {}
    /\ \E k \in DOMAIN _cache : _cache[k] # <<>>

Pooled(c) == \E k \in DOMAIN _cache : c \in Range(_cache[k])
BoundRows(c) == {i \in Rows : BoundCell(i) = c}
Calls(name) == {p \in DOMAIN last.log : last.log[p][1] = name}
PoolOf(k) == IF k \in DOMAIN _cache THEN _cache[k] ELSE <<>>

\* C2: in every reachable state no cell (ICell wrapper) is bound to two
\* different view rows.
C2_NoCellBoundToTwoRows ==
    \A c \in DOMAIN cells : Cardinality(BoundRows(c)) <= 1

\* two rows are bound and the last insertInDOM took its cell from the pool
C2_Witness ==
    /\ last.op = "insertInDOM"
    /\ Calls("alloc") # {}
    /\ Calls("renderTemplate") = {}
    /\ \E i, j \in Rows : i # j /\ BoundCell(i) # null /\ BoundCell(j) # null

\* C3: every cell that was constructed and not torn down is in exactly one
\* place: in the pool, or bound to exactly one view row.
C3_EveryCellPooledOrBound ==
    \A c \in DOMAIN cells :
        cells[c].disposeTemplate = 0 =>
            PooledCount(Cur, c) + Cardinality(BoundRows(c)) = 1

\* C4: the pool of a template id never holds more cells than were in use at
\* once, of that template id, so far.
C4_PoolWithinMaxInUse ==
    \A k \in TemplateIds : Len(PoolOf(k)) <= maxInUse[k]

\* two cells of one template id were in use at once and both are pooled now
C4_Witness ==
    \E k \in TemplateIds : Len(PoolOf(k)) >= 2 /\ Len(PoolOf(k)) = maxInUse[k]

\* C5: after garbageCollect() (or dispose()) no pool holds a cell; every cell
\* that was pooled when it began has had disposeTemplate called on it, and no
\* cell ever has it called twice, whatever is called afterwards.
C5_GarbageCollectTearsDownOnce ==
    /\ [](/\ \A c \in DOMAIN cells :
                /\ cells[c].disposeTemplate <= 1
                /\ ~cells[c].element => cells[c].disposeTemplate = 1
          /\ last.op \in {"garbageCollect", "dispose"} =>
                \A k \in DOMAIN _cache : _cache[k] = <<>>)
    /\ [][last'.op \in {"garbageCollect", "dispose"} =>
            \A c \in DOMAIN cells :
                Pooled(c) => /\ cells'[c].disposeTemplate = 1
                             /\ ~cells'[c].element]_vars

\* garbageCollect() is called again after dispose() tore a pooled cell down
C5_Witness ==
    /\ last.op = "garbageCollect"
    /\ disposed
    /\ \E c \in DOMAIN cells : cells[c].disposeTemplate = 1

\* C6: alloc(K) returns the top of the pool of K when that pool is not
\* empty, constructing nothing; when it is empty it constructs one new cell
\* with one renderTemplate call; either way the cell returned has template
\* id K and is in no pool.
C6_AllocPopsOrConstructs ==
    [][last'.op = "alloc" =>
        LET k == last'.args[1]
            w == last'.ret
        IN /\ ~last'.threw
           /\ IF PoolOf(k) # <<>>
              THEN /\ w = PoolOf(k)[Len(PoolOf(k))]
                   /\ cells' = cells
                   /\ \A p \in DOMAIN last'.log : last'.log[p][1] # "renderTemplate"
              ELSE /\ w \notin DOMAIN cells
                   /\ DOMAIN cells' = DOMAIN cells \cup {w}
                   /\ \A c \in DOMAIN cells : cells'[c] = cells[c]
                   /\ Cardinality({p \in DOMAIN last'.log :
                                    last'.log[p] = <<"renderTemplate", k>>}) = 1
           /\ cells'[w].templateId = k
           /\ \A kk \in DOMAIN _cache' : w \notin Range(_cache'[kk])]_vars

\* an alloc that was served from the pool
C6_Witness ==
    /\ last.op = "alloc"
    /\ Calls("renderTemplate") = {}
    /\ last.ret \in held

\* C7: after release(K, w) the element of w has no parent and w is in the
\* pool of K, where the next alloc(K) finds it.
C7_ReleaseDetachesAndPools ==
    \A p \in Calls("release") :
        LET k == last.log[p][2]
            w == last.log[p][3]
        IN /\ ~parentElement(Cur, w)
           /\ w \in Range(PoolOf(k))
           /\ alloc(Cur, k).ret = w

\* a row was removed: its cell was taken out of the row container and pooled
C7_Witness ==
    /\ last.op = "removeFromDOM"
    /\ Calls("release") # {}
    /\ rowsContainer # <<>>

\* C8: insertInDOM allocates a cell only if the row is not bound; with
\* beforeSibling null, or a child of the container, it puts the row's element
\* right before beforeSibling (last when null) and then calls the row's
\* render callback; when the row's element is attached already it changes
\* neither the container nor the pools and calls nothing.
C8_InsertInDOM ==
    [][last'.op = "insertInDOM" =>
        LET i == last'.args[1]
            a == last'.args[2]
            w == heightMap'[i + 1].row
        IN /\ (\E p \in DOMAIN last'.log : last'.log[p][1] = "alloc")
                => BoundCell(i) = null
           /\ BoundCell(i) # null => w = BoundCell(i)
           /\ IF i \in AttachedRows
              THEN /\ rowsContainer' = rowsContainer
                   /\ _cache' = _cache
                   /\ cells' = cells
                   /\ last'.log = <<>>
              ELSE (a = null \/ a \in Range(rowsContainer)) =>
                   /\ ~last'.threw
                   /\ w # null
                   /\ Without(rowsContainer', w) = rowsContainer
                   /\ \E p \in DOMAIN rowsContainer' :
                        /\ rowsContainer'[p] = w
                        /\ IF a = null
                           THEN p = Len(rowsContainer')
                           ELSE p < Len(rowsContainer') /\ rowsContainer'[p + 1] = a
                   /\ last'.log # <<>>
                   /\ last'.log[Len(last'.log)] = <<"render", i>>]_vars

\* a row was put right before the element of another attached row
C8_Witness ==
    /\ last.op = "insertInDOM"
    /\ last.args[2] # null
    /\ Calls("render") # {}
    /\ \E p \in DOMAIN rowsContainer :
        /\ rowsContainer[p] = BoundCell(last.args[1])
        /\ p < Len(rowsContainer)
        /\ rowsContainer[p + 1] = last.args[2]

\* C9: removeFromDOM on a bound row unbinds it and leaves its cell in the
\* pool exactly once; on an unbound row it does nothing; a second call right
\* after the first changes nothing more.
C9_RemoveFromDOMIdempotent ==
    \A i \in Rows :
        LET once == removeFromDOM(Cur, i)
            twice == removeFromDOM(once, i)
        IN /\ twice = once
           /\ BoundCell(i) = null => once = Cur
           /\ BoundCell(i) # null =>
                /\ once.heightMap[i + 1].row = null
                /\ PooledCount(once, BoundCell(i)) = 1

\* removeFromDOM was called on a row that a removal had unbound already
C9_Witness ==
    /\ last.op = "removeFromDOM"
    /\ last.log = <<>>
    /\ BoundCell(last.args[1]) = null
    /\ \E k \in DOMAIN _cache : _cache[k] # <<>>

\* C10: when the sibling handed to insertInDOM is not a child of the
\* container, the row's element is appended as the last child, the render
\* callback is still called and nothing is thrown; a render pass in which
\* that happens runs to its end and attaches the remaining rows.
C10_InsertFallsBackToAppend ==
    /\ [](\A i \in Rows, a \in Elements \ Range(rowsContainer) :
            (i \notin AttachedRows /\ (BoundCell(i) = null \/ element(Cur, i))) =>
                LET r == insertInDOM(Cur, i, a)
                    w == r.heightMap[i + 1].row
                IN /\ ~r.threw
                   /\ r.rowsContainer = Append(rowsContainer, w)
                   /\ r.log[Len(r.log)] = <<"render", i>>
                   /\ <<"warn", i>> \in Range(r.log))
    /\ [][last'.op = "render" =>
            /\ ~last'.threw
            /\ \A p \in DOMAIN last'.log :
                last'.log[p][1] = "warn" =>
                    /\ p < Len(last'.log)
                    /\ last'.log[p + 1] = <<"render", last'.log[p][2]>>
            /\ lastRenderTop' = last'.args[1]
            /\ lastRenderHeight' = last'.args[2]
            /\ \A i \in Rows :
                (/\ indexAt(Cur, last'.args[1]) <= i
                 /\ i < indexAfter(Cur, last'.args[1] + last'.args[2])
                 /\ BoundCell(i) = null) =>
                    /\ heightMap'[i + 1].row # null
                    /\ heightMap'[i + 1].row \in Range(rowsContainer')]_vars

\* a render pass in which an insertion fell back to appending and a further
\* row was inserted afterwards
C10_Witness ==
    /\ last.op = "render"
    /\ \E p \in Calls("warn") :
        \E q \in Calls("render") : q > p + 1

\* C11: releasing a cell whose element has no parent raises no error (the
\* TypeError of removeFromParent is caught) and still puts the cell into the
\* pool of its template id; the row that held it is unbound afterwards.
C11_ReleaseOfDetachedElement ==
    /\ (\A p \in Calls("release") :
            (p + 1 \in Calls("caught")) =>
                LET k == last.log[p][2]
                    w == last.log[p][3]
                IN /\ ~last.threw
                   /\ last.log[p + 1] = <<"caught", w>>
                   /\ Occurrences(PoolOf(k), w) = 1
                   /\ PooledCount(Cur, w) = 1
                   /\ BoundRows(w) = {})
    /\ (\A i \in Rows :
            (BoundCell(i) # null /\ element(Cur, i) /\ i \notin AttachedRows) =>
                LET r == removeFromDOM(Cur, i)
                    k == templateId(Cur, i)
                IN /\ ~r.threw
                   /\ r.heightMap[i + 1].row = null
                   /\ r.rowsContainer = rowsContainer
                   /\ r._cache[k] = Append(PoolOf(k), BoundCell(i)))

\* a render pass removed a row whose element had been detached before: the
\* TypeError was caught, the row is unbound and its cell is pooled
C11_Witness ==
    /\ last.op = "render"
    /\ \E p \in Calls("release") :
          /\ p + 1 \in Calls("caught")
          /\ \E i \in Rows :
                /\ BoundCell(i) = null
                /\ cells[last.log[p][3]].templateId = templateId(Cur, i)
          /\ Pooled(last.log[p][3])
    /\ rowsContainer # <<>>

\* the rows a pass attached (the render callback ran) and the rows it detached
InsertedRows == {last.log[p][2] : p \in Calls("render")}
RemovedRows == {last.log[p][2] : p \in Calls("removeFromDOM")}

\* C12: within one render pass no row is both inserted into and removed from
\* the DOM: the rows the two insert loops attach and the rows the two remove
\* loops detach are disjoint.
C12_NoRowInsertedAndRemoved ==
    last.op = "render" => InsertedRows \cap RemovedRows = {}

\* a pass that attached a row and detached another one
C12_Witness ==
    /\ last.op = "render"
    /\ InsertedRows # {}
    /\ RemovedRows # {}

\* the rows whose elements are the children of the row container, in DOM order
AttachedSeq(s) ==
    [p \in DOMAIN s.rowsContainer |->
        IF \E i \in RowIndices(s) : s.heightMap[i + 1].row = s.rowsContainer[p]
        THEN CHOOSE i \in RowIndices(s) : s.heightMap[i + 1].row = s.rowsContainer[p]
        ELSE noRow]

BoundIn(s) == {i \in RowIndices(s) : s.heightMap[i + 1].row # null}

\* C13: from every state a render pass can start in, and for every scroll
\* position and view height, running the four loops of render in any order
\* gives the same rows attached, in the same DOM order, as the order of the
\* source.
C13_LoopOrderDoesNotMatter ==
    \A scrollTop \in 0 .. MaxScrollTop, viewHeight \in 0 .. MaxViewHeight :
        LET r == render(Cur, scrollTop, viewHeight)
            seq == AttachedSeq(r)
            bound == BoundIn(r)
        IN \A a \in 1 .. 4 :
            LET s1 == renderLoop(Cur, Cur, a, scrollTop, viewHeight)
            IN \A b \in (1 .. 4) \ {a} :
                LET s2 == renderLoop(Cur, s1, b, scrollTop, viewHeight)
                IN \A c \in (1 .. 4) \ {a, b} :
                    LET s3 == renderLoop(Cur, s2, c, scrollTop, viewHeight)
                    IN \A d \in (1 .. 4) \ {a, b, c} :
                        LET s4 == renderLoop(Cur, s3, d, scrollTop, viewHeight)
                            q == renderEnd(Cur, s4, scrollTop, viewHeight)
                        IN /\ q.threw = r.threw
                           /\ AttachedSeq(q) = seq
                           /\ BoundIn(q) = bound
                           /\ q.styleTop = r.styleTop

\* a state from which a pass both attaches and detaches rows, and in which
\* running the removals first binds a row to another cell than the source's
\* order does (the cell just released is taken from the pool)
C13_Witness ==
    \E scrollTop \in 0 .. MaxScrollTop, viewHeight \in 0 .. MaxViewHeight :
        LET r == render(Cur, scrollTop, viewHeight)
            q == renderInOrder(Cur, <<3, 4, 1, 2>>, scrollTop, viewHeight)
        IN /\ AttachedSeq(r) # <<>>
           /\ AttachedSeq(r) # AttachedSeq(Cur)
           /\ BoundIn(Cur) \ BoundIn(r) # {}
           /\ q.heightMap # r.heightMap

getTotalHeight(s) ==
    IF s.heightMap = <<>> THEN 0
    ELSE s.heightMap[RowCount(s)].top + s.heightMap[RowCount(s)].height

\* C14 as claimed: after every render pass the top of the row container is
\* the cumulative top of the row at indexAt(scrollTop) minus scrollTop, for
\* every scrollTop and every table, the empty one included.
C14_TopOffsetOfFirstVisibleRow ==
    last.op = "render" =>
        LET topItem == indexAt(Cur, last.args[1])
        IN /\ hasItemAtIndex(Cur, topItem)
           /\ styleTop = heightMap[topItem + 1].top - last.args[1]

\* C14 as amended: after every render pass over a table that has a row at
\* indexAt(scrollTop), the top of the row container is the cumulative top of
\* that row minus scrollTop, also for a scrollTop at or beyond the total
\* height; over an empty table the pass leaves the top as it was.
C14_TopOffsetWhenRowExists ==
    [][last'.op = "render" =>
        LET topItem == indexAt(Cur, last'.args[1])
        IN /\ ~last'.threw
           /\ IF hasItemAtIndex(Cur, topItem)
              THEN styleTop' = heightMap[topItem + 1].top - last'.args[1]
              ELSE heightMap = <<>> /\ styleTop' = styleTop]_vars

\* a pass that scrolled to the total height or beyond it, after a pass that
\* had left a different top
C14_Witness ==
    /\ last.op = "render"
    /\ heightMap # <<>>
    /\ last.args[1] >= getTotalHeight(Cur)
    /\ last.args[1] > 0
    /\ styleTop = heightMap[RowCount(Cur)].top - last.args[1]
    /\ styleTop < 0
    /\ \E k \in DOMAIN _cache : _cache[k] # <<>>

\* C15 as claimed: with rows of 20px and the viewport of 200px at the top,
\* scrolling to scrollTop = 205 removes row 0 and inserts row 10, leaves
\* rows 1 to 10 attached and sets the top of the row container to -5px.
C15_ScrollTo205 ==
    [][(/\ lastRenderTop = 0
        /\ lastRenderHeight = 200
        /\ last'.op = "render"
        /\ last'.args = <<205, 200>>) =>
            /\ {last'.log[p][2] : p \in {p \in DOMAIN last'.log : last'.log[p][1] = "removeFromDOM"}} = {0}
            /\ {last'.log[p][2] : p \in {p \in DOMAIN last'.log : last'.log[p][1] = "render"}} = {10}
            /\ {i \in Rows : heightMap'[i + 1].row # null
                              /\ heightMap'[i + 1].row \in Range(rowsContainer')} = 1 .. 10
            /\ styleTop' = -5]_vars

\* C15 as amended: with rows of 20px and the viewport of 200px at the top
\* (rows 0 to 10 attached: row 10 starts at the bottom edge), scrolling to
\* scrollTop = 205 removes rows 0 to 9 and inserts rows 11 to 20, leaves rows
\* 10 to 20 attached, row 10 on the cell it had, and sets the top of the row
\* container to -5px.
C15_ScrollTo205LeavesRows10To20 ==
    [][(/\ lastRenderTop = 0
        /\ lastRenderHeight = 200
        /\ last'.op = "render"
        /\ last'.args = <<205, 200>>) =>
            /\ AttachedRows = 0 .. 10
            /\ ~last'.threw
            /\ {last'.log[p][2] : p \in {p \in DOMAIN last'.log : last'.log[p][1] = "removeFromDOM"}} = 0 .. 9
            /\ {last'.log[p][2] : p \in {p \in DOMAIN last'.log : last'.log[p][1] = "render"}} = 11 .. 20
            /\ {i \in Rows : heightMap'[i + 1].row # null
                              /\ heightMap'[i + 1].row \in Range(rowsContainer')} = 10 .. 20
            /\ heightMap'[11].row = heightMap[11].row
            /\ Len(rowsContainer') = 11
            /\ styleTop' = -5]_vars

\* the viewport of 200px was scrolled from the top to scrollTop = 205
C15_Witness ==
    /\ last.op = "render"
    /\ last.args = <<205, 200>>
    /\ RemovedRows = 0 .. 9
    /\ InsertedRows = 11 .. 20
    /\ AttachedRows = 10 .. 20
    /\ styleTop = -5

\* C16: when a render pass has the scroll position of the last one and a
\* greater view height, it attaches exactly the rows of the new visible range
\* that were not attached (after a pass: not in the visible range of that
\* pass), detaches no row, and every row that was attached keeps its cell and
\* its place among the attached elements.
C16_GrowingViewportOnlyInserts ==
    [][(/\ last'.op = "render"
        /\ last'.args[1] = lastRenderTop
        /\ last'.args[2] > lastRenderHeight) =>
            LET new == VisibleRange(last'.args[1], last'.args[2])
                old == VisibleRange(lastRenderTop, lastRenderHeight)
            IN /\ ~last'.threw
               /\ RemovedRows' = {}
               /\ InsertedRows' = new \ AttachedRows
               /\ last.op = "render" => AttachedRows = old
               /\ \A i \in AttachedRows : heightMap'[i + 1].row = heightMap[i + 1].row
               /\ \A p \in DOMAIN last'.log : last'.log[p][1] # "release"
               /\ SelectSeq(rowsContainer', LAMBDA c : c \in Range(rowsContainer))
                    = rowsContainer]_vars

\* a pass after a resize that left the rows of the last pass attached and
\* attached more rows below them
C16_Witness ==
    /\ last.op = "render"
    /\ RemovedRows = {}
    /\ InsertedRows # {}
    /\ AttachedRows \ InsertedRows # {}
    /\ last.args[1] > 0
    /\ \A i \in AttachedRows \ InsertedRows : \A j \in InsertedRows : i < j

\* offset is strictly between the start and the end of a row
StrictlyInsideARow(offset) ==
    \E i \in Rows : /\ heightMap[i + 1].top < offset
                     /\ offset < heightMap[i + 1].top + heightMap[i + 1].height

\* C17 as claimed: for every offset and every content of the height index,
\* indexAfter(offset) >= indexAt(offset), and the two are equal only when the
\* offset is strictly inside a row's span.
C17_IndexAfterNotBeforeIndexAt ==
    last.op = "indexAt" =>
        /\ last.ret[2] >= last.ret[1]
        /\ last.ret[2] = last.ret[1] => StrictlyInsideARow(last.args[1])

\* C17 as amended: for every offset and every height index that has a row,
\* indexAfter(offset) >= indexAt(offset), and the two are equal only when the
\* offset is strictly inside a row's span; for the height index without rows
\* both are 0, the row count.
C17_IndexAfterNotBeforeIndexAtWithRows ==
    last.op = "indexAt" =>
        IF heightMap # <<>>
        THEN /\ last.ret[2] >= last.ret[1]
             /\ last.ret[2] = last.ret[1] => StrictlyInsideARow(last.args[1])
        ELSE last.ret = <<0, 0>>

\* the index was asked about an offset strictly inside its first row, which
\* has a row after it
C17_Witness ==
    /\ last.op = "indexAt"
    /\ Len(heightMap) >= 2
    /\ 0 < last.args[1]
    /\ last.args[1] < heightMap[1].height
    /\ last.ret = <<0, 1>>

\* the cumulative top of every row, from the heights of the rows before it
CumulativeTops == Tops([k \in DOMAIN heightMap |-> heightMap[k].height])

MouseHandlers == {"onMouseDown", "onMouseUp", "onClick", "onTap", "onContextMenu"}

\* C19: when a mouse-down, mouse-up, click, tap or mouse context-menu event
\* targets the element of an attached row, with the pointer type mouse or not
\* set, the handler calls the controller's handler of the same name, once,
\* with that row.
C19_MouseEventReachesController ==
    [][(/\ last'.op \in MouseHandlers
        /\ last'.args[1] \in Range(rowsContainer)
        /\ lastPointerType \in {"", "mouse"}
        /\ last'.op \in {"onMouseDown", "onMouseUp"} => ~last'.args[2]
        /\ last'.op = "onContextMenu" => ~didJustPressContextMenuKey) =>
            \E i \in AttachedRows :
                /\ BoundCell(i) = last'.args[1]
                /\ last'.log = <<<<last'.op, i>>>>]_vars

\* C20: when a context-menu key was pressed and is released with no
\* mouse-down in between, the key-up handler calls the controller's
\* onContextMenu and then its onKeyUp and throws nothing; afterwards
\* didJustPressContextMenuKey is false.
C20_ContextMenuKeyReleased ==
    [][(last'.op = "onKeyUp" /\ didJustPressContextMenuKey) =>
            /\ ~last'.threw
            /\ Len(last'.log) = 2
            /\ last'.log[1][1] = "onContextMenu"
            /\ last'.log[2][1] = "onKeyUp"
            /\ ~didJustPressContextMenuKey']_vars

\* C23: after every render pass the elements of the attached rows are in
\* the row container in ascending row-index order: every child of the
\* container is the element of a row, and the element of row i comes before
\* the element of row j whenever i < j.
C23_ElementsInRowOrder ==
    last.op = "render" =>
        LET seq == AttachedSeq(Cur)
        IN /\ \A p \in DOMAIN seq : seq[p] # noRow
           /\ \A p, q \in DOMAIN seq : p < q => seq[p] < seq[q]

\* a pass that jumped up to a range disjoint from the previous one: it
\* attached at least two rows, all with cells taken from the pool, and
\* detached the rows of the previous range
C23_Witness ==
    /\ last.op = "render"
    /\ Cardinality(InsertedRows) >= 2
    /\ AttachedRows = InsertedRows
    /\ RemovedRows # {}
    /\ \A i \in RemovedRows : \A j \in InsertedRows : j < i
    /\ Calls("alloc") # {}
    /\ Calls("renderTemplate") = {}

\* C25: once onHidden() has been called, every later layout(height) returns
\* without changing the viewport height and without a render pass (nothing
\* of the view changes, no call is made), and no operation of the view sets
\* onHiddenScrollTop back to null.
C25_HiddenViewIsNeverLaidOut ==
    [][onHiddenScrollTop # nullScrollTop =>
          /\ onHiddenScrollTop' # nullScrollTop
          /\ last'.op = "layout" =>
                /\ lastRenderHeight' = lastRenderHeight
                /\ lastRenderTop' = lastRenderTop
                /\ rowsContainer' = rowsContainer
                /\ heightMap' = heightMap
                /\ cells' = cells
                /\ _cache' = _cache
                /\ styleTop' = styleTop
                /\ last'.log = <<>>
                /\ ~last'.threw]_vars

\* layout(height) was called on a hidden view that has rows, with a height
\* other than the one the viewport has
C25_Witness ==
    /\ onHiddenScrollTop # nullScrollTop
    /\ last.op = "layout"
    /\ last.args[1] # lastRenderHeight
    /\ heightMap # <<>>
    /\ rowsContainer # <<>>

\* the list `out` is the list `in` with the entries at the 1-based positions
\* 1 and p exchanged and every other entry where it was
SwappedWithFirst(in, out, p) ==
    /\ Len(out) = Len(in)
    /\ out[1] = in[p]
    /\ out[p] = in[1]
    /\ \A j \in DOMAIN in : j \notin {1, p} => out[j] = in[j]

\* C26: getServerValues and getDatabaseValues return the host's list with
\* the same length and entries; when the launch connection (resp. launch
\* database) is in the list it is at index 0, the entry that was at index 0
\* is where the launch entry was and every other entry keeps its position;
\* when it is absent the order is unchanged; getServerValues returns
\* undefined when there is no active connection.
C26_LaunchEntryFirst ==
    /\ last.op = "getServerValues" =>
          IF activeConnections = <<>>
          THEN last.ret.undefined
          ELSE LET out == [k \in DOMAIN last.ret.values |->
                              last.ret.values[k].connection]
                   at == {k \in DOMAIN activeConnections :
                              activeConnections[k].connectionId = connectionId}
               IN /\ ~last.ret.undefined
                  /\ \A k \in DOMAIN out :
                        last.ret.values[k].name = out[k].options.server
                  /\ IF at = {}
                     THEN out = activeConnections
                     ELSE \A p \in at : SwappedWithFirst(activeConnections, out, p)
    /\ last.op = "getDatabaseValues" =>
          LET in == databasesOf[last.args[1]]
              out == [k \in DOMAIN last.ret |-> last.ret[k].name]
              at == {k \in DOMAIN in : in[k] = database}
          IN /\ \A k \in DOMAIN out : last.ret[k].displayName = out[k]
             /\ IF at = {}
                THEN out = in
                ELSE \A p \in at : SwappedWithFirst(in, out, p)

\* a call that moved the launch entry from the last of three positions to
\* the front, leaving the middle entry where it was
C26_Witness ==
    \/ /\ last.op = "getServerValues"
       /\ Len(activeConnections) = 3
       /\ activeConnections[3].connectionId = connectionId
       /\ last.ret.values[1].connection = activeConnections[3]
    \/ /\ last.op = "getDatabaseValues"
       /\ Len(databasesOf[last.args[1]]) = 3
       /\ databasesOf[last.args[1]][3] = database
       /\ last.ret[1].name = database

\* C21: as soon as openDialog(context) has returned its promise, and before
\* anything else runs, dialog.dialog exists with the title 'Schema Compare'
\* and its OK button has the label 'Compare' and is enabled, whatever the
\* context is, one without a connectionProfile included.
C21_DialogExistsWhenOpenDialogReturns ==
    last.op = "openDialog" =>
        /\ dialog.exists
        /\ dialog.title = "Schema Compare"
        /\ dialog.okButton.label = "Compare"
        /\ dialog.okButton.enabled

\* the values a database dropdown has when it lists the databases of the
\* server with connection id `id`
DatabaseValuesOf(id) == getDatabaseValues(databasesOf[id], database)

\* C22: when the value of a server dropdown has changed and every
\* populateDatabaseDropdown call made for that side has completed, in
\* whatever order the listDatabases requests resolved, the database dropdown
\* of the side lists the databases of the server selected last.
C22_DatabasesOfServerSelectedLast ==
    /\ (/\ sourceServerDropdown.value # ""
        /\ \A request \in pending : request.isTarget) =>
            sourceDatabaseDropdown.values =
                DatabaseValuesOf(sourceServerDropdown.value)
    /\ (/\ targetServerDropdown.value # ""
        /\ \A request \in pending : ~request.isTarget) =>
            targetDatabaseDropdown.values =
                DatabaseValuesOf(targetServerDropdown.value)

\* C24: once the form is built, and after every click on a radio button, the
\* form has for each side exactly the input group of its flag: the file
\* browser when the side is a dacpac, else either the server and database
\* dropdowns or the 'No active connections' text; no form item is there
\* twice, and the source group is between the two radio button groups.
FormShows(group) == Range(formBuilder) \cap (SourceGroup \cup TargetGroup) = group

Position(c) == IndexOf(formBuilder, c)

C24_FormMatchesFlags ==
    pc = "initialized" =>
        /\ \A c \in Range(formBuilder) : Occurrences(formBuilder, c) = 1
        /\ \E source \in IF sourceIsDacpac
                         THEN {{"sourceDacpacComponent"}}
                         ELSE {{"sourceServerComponent", "sourceDatabaseComponent"},
                               {"sourceNoActiveConnectionsText"}} :
           \E target \in IF targetIsDacpac
                         THEN {{"targetDacpacComponent"}}
                         ELSE {{"targetServerComponent", "targetDatabaseComponent"},
                               {"targetNoActiveConnectionsText"}} :
              FormShows(source \cup target)
        /\ {"sourceRadioButtons", "targetRadioButtons"} \subseteq Range(formBuilder)
        /\ \A c \in Range(formBuilder) \cap SourceGroup :
              /\ Position("sourceRadioButtons") < Position(c)
              /\ Position(c) < Position("targetRadioButtons")

====
